---- MODULE Spec2Model ----
(***************************************************************************)
(* debounce-throttle-lite: the debounce and throttle wrappers.             *)
(*                                                                         *)
(* One wrapper instance per behaviour.  Its closure variables (timeoutId,  *)
(* lastCallTime, lastInvokeTime, lastArgs, lastThis, result) are the       *)
(* program state; the clock (Date.now) and the host's timer table          *)
(* (setTimeout / clearTimeout) are the environment.  Every function of the *)
(* closure is an operator from a state record to a state record, so that a *)
(* handler is the sequential composition its code is.                      *)
(*                                                                         *)
(* Timers are exact: a timer fires in the millisecond it is due (the clock *)
(* does not pass a due timer), and within one millisecond wrapper calls    *)
(* and due timers run in either order.                                     *)
(***************************************************************************)
EXTENDS Integers, Sequences, FiniteSets, Bags

\* ------------------------------------------------------------------ bounds
MaxCalls == 3
MaxTime == 3
MaxWait == 3
MaxMaxWait == 3
StartTime == 10

\* the JavaScript value undefined (every other value of the model is >= 0)
Undefined == -1

\* the outcome of an operation that ended with the exception the callable threw
Threw == -2

\* the receiver (`this`) of the k-th call: one object per call, none of them an argument
ThisOf(k) == MaxCalls + k
Kinds == {"debounce", "throttle"}

VARIABLES
  kind, leading, trailing, wait, maxWait,     \* the factory's arguments
  throwing,                                   \* the callable: the arguments it throws on
  timeoutId, maxTimeoutId, lastCallTime, lastInvokeTime,
  lastArgs, lastThis, result,                 \* the closure's variables
  now, timers,                                \* Date.now(), the timer table
  log, op, ret,                               \* history: calls and invocations, last operation, its return value
  lastCancel, lastFlush                       \* history: how many calls had been made when cancel(),
                                              \* flush() last ran (0: never, or before the first call)

config == <<kind, leading, trailing, wait, maxWait, throwing>>
vars == <<kind, leading, trailing, wait, maxWait, throwing, timeoutId, maxTimeoutId,
          lastCallTime, lastInvokeTime, lastArgs, lastThis, result,
          now, timers, log, op, ret, lastCancel, lastFlush>>

Max(a, b) == IF a >= b THEN a ELSE b
Min(a, b) == IF a <= b THEN a ELSE b

\* JavaScript truthiness of an optional number (`maxWait ? ... : ...`, `if (maxWait)`)
Truthy(x) == x # Undefined /\ x # 0

\* the closure's state, the timer table and the history, as one record
Cur ==
  [timeoutId |-> timeoutId, maxTimeoutId |-> maxTimeoutId,
   lastCallTime |-> lastCallTime, lastInvokeTime |-> lastInvokeTime,
   lastArgs |-> lastArgs, lastThis |-> lastThis, result |-> result,
   timers |-> timers, log |-> log, op |-> op, ret |-> ret]

Commit(s) ==
  /\ timeoutId' = s.timeoutId
  /\ maxTimeoutId' = s.maxTimeoutId
  /\ lastCallTime' = s.lastCallTime
  /\ lastInvokeTime' = s.lastInvokeTime
  /\ lastArgs' = s.lastArgs
  /\ lastThis' = s.lastThis
  /\ result' = s.result
  /\ timers' = s.timers
  /\ log' = s.log
  /\ op' = s.op
  /\ ret' = s.ret

\* ------------------------------------------------------------ environment
\* the underlying callable: its return value identifies the arguments it ran
\* with; on the arguments in `throwing` it throws instead of returning
func(thisArg, args) == args
Throws(thisArg, args) == args \in throwing

\* The host's timer table is the bag of the due times of the outstanding
\* timers.  Every timer of a wrapper runs the same callback, so timers due at
\* the same time are interchangeable and a handle is represented by the due
\* time of its timer.
\* setTimeout(timerExpired, delay): a new timer, due after max(delay, 0); every
\* call site stores the handle in timeoutId
setTimeout(s, delay) ==
  LET due == now + Max(delay, 0)
  IN [s EXCEPT !.timers = @ (+) SetToBag({due}),
               !.timeoutId = due]

\* clearTimeout(handle): the timer leaves the table (no effect if it is not there)
clearTimeout(s, handle) ==
  [s EXCEPT !.timers = @ (-) SetToBag({handle})]

\* --------------------------------------------------------- src/debounce.ts
\* an invokeFunc that applies the callable without the stored receiver
invokeFunc_noReceiver(s, time) ==
  LET args == s.lastArgs
      r == func(Undefined, args)
  IN [s EXCEPT !.lastArgs = Undefined,
               !.lastThis = Undefined,
               !.lastInvokeTime = time,
               !.result = r,
               !.ret = r,
               !.log = Append(@, [type |-> "invoke", at |-> now, args |-> args,
                                   this |-> Undefined, op |-> s.op,
                                   threw |-> FALSE])]

\* an invokeFunc that clears the stored arguments only after the callable returned
invokeFunc_retry(s, time) ==
  LET args == s.lastArgs
      thisArg == s.lastThis
      r == func(thisArg, args)
      s1 == [s EXCEPT !.lastInvokeTime = time,
                      !.log = Append(@, [type |-> "invoke", at |-> now, args |-> args,
                                          this |-> thisArg, op |-> s.op,
                                          threw |-> Throws(thisArg, args)])]
  IN IF Throws(thisArg, args)
       THEN [s1 EXCEPT !.ret = Threw]
       ELSE [s1 EXCEPT !.lastArgs = Undefined, !.lastThis = Undefined,
                       !.result = r, !.ret = r]

\* an invokeFunc that leaves the arguments and the receiver stored
invokeFunc_keepsArgs(s, time) ==
  LET args == s.lastArgs
      thisArg == s.lastThis
      r == func(thisArg, args)
  IN [s EXCEPT !.lastInvokeTime = time,
               !.result = r,
               !.ret = r,
               !.log = Append(@, [type |-> "invoke", at |-> now, args |-> args,
                                   this |-> thisArg, op |-> s.op,
                                   threw |-> FALSE])]

invokeFunc(s, time) ==
  LET args == s.lastArgs
      thisArg == s.lastThis
      r == func(thisArg, args)
      s1 == [s EXCEPT !.lastArgs = Undefined,
                      !.lastThis = Undefined,
                      !.lastInvokeTime = time,
                      !.log = Append(@, [type |-> "invoke", at |-> now, args |-> args,
                                          this |-> thisArg, op |-> s.op,
                                          threw |-> Throws(thisArg, args)])]
  IN IF Throws(thisArg, args)
       THEN [s1 EXCEPT !.ret = Threw]
       ELSE [s1 EXCEPT !.result = r, !.ret = r]

\* a leadingEdge that returns the previously cached result after invoking
leadingEdge_stale(s, time) ==
  LET s1 == setTimeout([s EXCEPT !.lastInvokeTime = time], wait)
  IN IF leading THEN [invokeFunc(s1, time) EXCEPT !.ret = s1.result]
                ELSE [s1 EXCEPT !.ret = s1.result]

leadingEdge(s, time) ==
  LET s1 == setTimeout([s EXCEPT !.lastInvokeTime = time], wait)
  IN IF leading THEN invokeFunc(s1, time) ELSE [s1 EXCEPT !.ret = s1.result]

\* a remainingWait in which the reschedule waits a full `wait` again instead of the remainder
remainingWait_full(s, time) == wait

remainingWait(s, time) ==
  LET timeSinceLastCall == time - s.lastCallTime
      timeSinceLastInvoke == time - s.lastInvokeTime
      timeWaiting == wait - timeSinceLastCall
  IN IF Truthy(maxWait) THEN Min(timeWaiting, maxWait - timeSinceLastInvoke)
                        ELSE timeWaiting

\* a shouldInvoke for which every call and every check counts as due
shouldInvoke_always(s, time) == TRUE

\* a shouldInvoke that is true only before the first call
shouldInvoke_onlyFirst(s, time) == s.lastCallTime = 0

shouldInvoke(s, time) ==
  LET timeSinceLastCall == time - s.lastCallTime
      timeSinceLastInvoke == time - s.lastInvokeTime
  IN \/ s.lastCallTime = 0
     \/ timeSinceLastCall >= wait
     \/ timeSinceLastCall < 0
     \/ (maxWait # Undefined /\ timeSinceLastInvoke >= maxWait)

\* a trailingEdge that invokes whenever arguments are stored, whatever `trailing` is
trailingEdge_ungated(s, time) ==
  LET s1 == [s EXCEPT !.timeoutId = Undefined]
  IN IF s1.lastArgs # Undefined
       THEN invokeFunc(s1, time)
       ELSE [s1 EXCEPT !.ret = s1.result]

\* a trailingEdge that leaves the handle in timeoutId
trailingEdge_keepsHandle(s, time) ==
  IF trailing /\ s.lastArgs # Undefined
    THEN invokeFunc(s, time)
    ELSE [s EXCEPT !.lastArgs = Undefined, !.lastThis = Undefined,
                   !.ret = s.result]

\* a trailingEdge that records the time of the completion also when it does not invoke
trailingEdge_stamps(s, time) ==
  LET s1 == [s EXCEPT !.timeoutId = Undefined]
  IN IF trailing /\ s1.lastArgs # Undefined
       THEN invokeFunc(s1, time)
       ELSE [s1 EXCEPT !.lastArgs = Undefined, !.lastThis = Undefined,
                       !.lastInvokeTime = time,
                       !.ret = s1.result]

trailingEdge(s, time) ==
  LET s1 == [s EXCEPT !.timeoutId = Undefined]
  IN IF trailing /\ s1.lastArgs # Undefined
       THEN invokeFunc(s1, time)
       ELSE [s1 EXCEPT !.lastArgs = Undefined, !.lastThis = Undefined,
                       !.ret = s1.result]

\* a timerExpired that drops the stored arguments when it reschedules
timerExpired_drops(s) ==
  LET time == now
  IN IF shouldInvoke(s, time)
       THEN trailingEdge(s, time)
       ELSE [setTimeout(s, remainingWait(s, time)) EXCEPT !.lastArgs = Undefined,
                                                          !.lastThis = Undefined,
                                                          !.ret = Undefined]

timerExpired(s) ==
  LET time == now
  IN IF shouldInvoke(s, time)
       THEN trailingEdge(s, time)
       ELSE [setTimeout(s, remainingWait(s, time)) EXCEPT !.ret = Undefined]

\* cancel() that clears the timer but keeps the stored arguments
cancel_keepArgs(s) ==
  LET s1 == IF s.timeoutId # Undefined THEN clearTimeout(s, s.timeoutId) ELSE s
  IN [s1 EXCEPT !.lastInvokeTime = 0,
                !.lastCallTime = 0,
                !.timeoutId = Undefined,
                !.maxTimeoutId = Undefined,
                !.ret = Undefined]

cancel(s) ==
  LET s1 == IF s.timeoutId # Undefined THEN clearTimeout(s, s.timeoutId) ELSE s
      s2 == IF s1.maxTimeoutId # Undefined THEN clearTimeout(s1, s1.maxTimeoutId) ELSE s1
  IN [s2 EXCEPT !.lastInvokeTime = 0,
                !.lastCallTime = 0,
                !.lastArgs = Undefined,
                !.lastThis = Undefined,
                !.timeoutId = Undefined,
                !.maxTimeoutId = Undefined,
                !.ret = Undefined]

\* flush() that only reads the cached result
flush_cached(s) == [s EXCEPT !.ret = s.result]

flush(s) ==
  IF s.timeoutId = Undefined THEN [s EXCEPT !.ret = s.result]
                             ELSE trailingEdge(s, now)

debounced(s, this, args) ==
  LET time == now
      isInvoking == shouldInvoke(s, time)
      s1 == [s EXCEPT !.lastArgs = args, !.lastThis = this, !.lastCallTime = time]
  IN IF isInvoking /\ s1.timeoutId = Undefined
       THEN leadingEdge(s1, s1.lastCallTime)
       ELSE IF isInvoking /\ Truthy(maxWait)
         THEN invokeFunc(setTimeout(s1, wait), s1.lastCallTime)
         ELSE LET s2 == IF s1.timeoutId = Undefined THEN setTimeout(s1, wait) ELSE s1
              IN [s2 EXCEPT !.ret = s2.result]

pending(s) == s.timeoutId # Undefined

\* -------------------------------- throttle (src/__tests__/debounce.test.ts)
throttle_invokeFunc(s, time) ==
  LET args == s.lastArgs
      thisArg == s.lastThis
      r == func(thisArg, args)
      s1 == [s EXCEPT !.lastArgs = Undefined,
                      !.lastThis = Undefined,
                      !.lastInvokeTime = time,
                      !.log = Append(@, [type |-> "invoke", at |-> now, args |-> args,
                                          this |-> thisArg, op |-> s.op,
                                          threw |-> Throws(thisArg, args)])]
  IN IF Throws(thisArg, args)
       THEN [s1 EXCEPT !.ret = Threw]
       ELSE [s1 EXCEPT !.result = r, !.ret = r]

throttle_leadingEdge(s, time) ==
  LET s1 == [s EXCEPT !.lastInvokeTime = time]
  IN IF leading THEN throttle_invokeFunc(s1, time) ELSE [s1 EXCEPT !.ret = s1.result]

throttle_remainingWait(s, time) ==
  LET timeSinceLastCall == time - s.lastCallTime
      timeWaiting == wait - timeSinceLastCall
  IN timeWaiting

throttle_shouldInvoke(s, time) ==
  LET timeSinceLastCall == time - s.lastCallTime
      timeSinceLastInvoke == time - s.lastInvokeTime
  IN \/ s.lastCallTime = 0
     \/ timeSinceLastCall >= wait
     \/ timeSinceLastCall < 0
     \/ timeSinceLastInvoke >= wait

throttle_trailingEdge(s, time) ==
  LET s1 == [s EXCEPT !.timeoutId = Undefined]
  IN IF trailing /\ s1.lastArgs # Undefined
       THEN throttle_invokeFunc(s1, time)
       ELSE [s1 EXCEPT !.lastArgs = Undefined, !.lastThis = Undefined,
                       !.ret = s1.result]

throttle_timerExpired(s) ==
  LET time == now
  IN IF throttle_shouldInvoke(s, time)
       THEN throttle_trailingEdge(s, time)
       ELSE [setTimeout(s, throttle_remainingWait(s, time)) EXCEPT !.ret = Undefined]

throttle_cancel(s) ==
  LET s1 == IF s.timeoutId # Undefined THEN clearTimeout(s, s.timeoutId) ELSE s
  IN [s1 EXCEPT !.lastInvokeTime = 0,
                !.lastCallTime = 0,
                !.lastArgs = Undefined,
                !.lastThis = Undefined,
                !.timeoutId = Undefined,
                !.ret = Undefined]

throttle_flush(s) ==
  IF s.timeoutId = Undefined THEN [s EXCEPT !.ret = s.result]
                             ELSE throttle_trailingEdge(s, now)

throttled(s, this, args) ==
  LET time == now
      isInvoking == throttle_shouldInvoke(s, time)
      s1 == [s EXCEPT !.lastArgs = args, !.lastThis = this, !.lastCallTime = time]
  IN IF isInvoking /\ s1.timeoutId = Undefined
       THEN throttle_leadingEdge(s1, s1.lastCallTime)
       ELSE LET s2 == IF s1.timeoutId = Undefined /\ trailing
                        THEN setTimeout(s1, wait) ELSE s1
            IN [s2 EXCEPT !.ret = s2.result]

throttle_pending(s) == s.timeoutId # Undefined

\* ---------------------------------------------------------------- history
Calls == SelectSeq(log, LAMBDA e : e.type = "call")
Invocations == SelectSeq(log, LAMBDA e : e.type = "invoke")
NCalls == Len(Calls)
InvokedArgs == {Invocations[i].args : i \in 1..Len(Invocations)}

\* every timer already due has fired
NoTimerDue == \A due \in BagToSet(timers) : due > now

\* ---------------------------------------------------------------- actions
\* the factory: debounce(func, wait, options) / throttle(func, wait, options)
InitThrowing(K, L, T, W, M, Th) ==
  /\ kind \in K
  /\ leading \in L
  /\ trailing \in T
  /\ wait \in W
  /\ maxWait \in (IF kind = "debounce" THEN M ELSE {Undefined})
  /\ throwing \in Th
  /\ timeoutId = Undefined
  /\ maxTimeoutId = Undefined
  /\ lastCallTime = 0
  /\ lastInvokeTime = 0
  /\ lastArgs = Undefined
  /\ lastThis = Undefined
  /\ result = Undefined
  /\ now = StartTime
  /\ timers = EmptyBag
  /\ log = <<>>
  /\ op = "init"
  /\ ret = Undefined
  /\ lastCancel = 0
  /\ lastFlush = 0

\* a wrapper of a callable that never throws
InitWith(K, L, T, W, M) == InitThrowing(K, L, T, W, M, {{}})

\* the caller calls the wrapper.  The code never inspects the arguments or the
\* receiver, so each call gets its own: the k-th call passes argument k on receiver ThisOf(k).
Call ==
  /\ NCalls < MaxCalls
  /\ LET k == NCalls + 1
         this == ThisOf(k)
         s0 == [Cur EXCEPT !.op = "call",
                           !.log = Append(@, [type |-> "call", at |-> now, args |-> k,
                                               this |-> this, op |-> "call",
                                               threw |-> FALSE])]
     IN Commit(IF kind = "debounce" THEN debounced(s0, this, k)
                                    ELSE throttled(s0, this, k))
  /\ UNCHANGED <<config, now, lastCancel, lastFlush>>

\* the caller calls wrapper.flush()
Flush ==
  /\ LET s0 == [Cur EXCEPT !.op = "flush"]
     IN Commit(IF kind = "debounce" THEN flush(s0) ELSE throttle_flush(s0))
  /\ lastFlush' = NCalls
  /\ UNCHANGED <<config, now, lastCancel>>

\* the caller calls wrapper.cancel()
Cancel ==
  /\ LET s0 == [Cur EXCEPT !.op = "cancel"]
     IN Commit(IF kind = "debounce" THEN cancel(s0) ELSE throttle_cancel(s0))
  /\ lastCancel' = NCalls
  /\ UNCHANGED <<config, now, lastFlush>>

\* the host runs a due timer: the entry leaves the table, its callback runs
TimerFire ==
  /\ \E due \in BagToSet(timers) :
       /\ due <= now
       /\ LET s0 == [Cur EXCEPT !.op = "timer", !.timers = @ (-) SetToBag({due})]
          IN Commit(IF kind = "debounce" THEN timerExpired(s0)
                                         ELSE throttle_timerExpired(s0))
  /\ UNCHANGED <<config, now, lastCancel, lastFlush>>

\* one millisecond passes; a due timer fires before the clock moves on.  The
\* code reads the clock only through differences (and the 0 sentinels, far
\* below StartTime), so the clock is taken to start at the first call
Tick ==
  /\ NCalls >= 1
  /\ now < StartTime + MaxTime
  /\ NoTimerDue
  /\ now' = now + 1
  /\ op' = "tick"
  /\ UNCHANGED <<config, timeoutId, maxTimeoutId, lastCallTime, lastInvokeTime,
                 lastArgs, lastThis, result, timers, log, ret, lastCancel, lastFlush>>

Next == Call \/ Flush \/ Cancel \/ TimerFire \/ Tick

Waits == 0..MaxWait
MaxWaits == {Undefined} \cup (0..MaxMaxWait)

Init == InitWith(Kinds, BOOLEAN, BOOLEAN, Waits, MaxWaits)
Spec == Init /\ [][Next]_vars

TypeOK ==
  /\ kind \in Kinds /\ leading \in BOOLEAN /\ trailing \in BOOLEAN
  /\ wait \in Waits /\ maxWait \in MaxWaits
  /\ timeoutId \in {Undefined} \cup (StartTime..(StartTime + MaxTime + MaxWait))
  /\ maxTimeoutId = Undefined
  /\ lastArgs \in {Undefined} \cup (1..MaxCalls)
  /\ lastThis \in {Undefined} \cup {ThisOf(k) : k \in 1..MaxCalls}
  /\ result \in {Undefined} \cup (1..MaxCalls)
  /\ throwing \subseteq 1..MaxCalls
  /\ ret \in {Undefined, Threw} \cup (1..MaxCalls)
  /\ now \in StartTime..(StartTime + MaxTime)
  /\ IsABag(timers)
  /\ \A due \in BagToSet(timers) : due >= now
  /\ timeoutId = Undefined \/ BagIn(timeoutId, timers)

\* ------------------------------------------------------------- properties
\* index of the first call of the last burst: the calls after it each arrive
\* less than `wait` after the one before
LastBurstStart ==
  CHOOSE b \in 1..NCalls :
    /\ \A j \in (b + 1)..NCalls : Calls[j].at - Calls[j - 1].at < wait
    /\ b > 1 => Calls[b].at - Calls[b - 1].at >= wait

\* no cancel() and no flush() since the k-th call was made
Undisturbed(k) == lastCancel < k /\ lastFlush < k

\* the invocations that ran with the arguments of one of the calls k..NCalls
InvocationsSince(k) == {i \in 1..Len(Invocations) : Invocations[i].args >= k}

InitDebounceTrailing == InitWith({"debounce"}, {FALSE}, {TRUE}, Waits, {Undefined})
SpecDebounceTrailing == InitDebounceTrailing /\ [][Next]_vars

\* C1: debounce, leading=false, trailing=true, no maxWait.  A burst (calls each
\* less than `wait` after the one before) that no call, cancel or flush follows
\* is invoked exactly once, with the arguments and receiver of its last call,
\* exactly `wait` after that call and never earlier: no invocation with a call
\* of the burst happens otherwise, and once the clock has reached (last call +
\* wait) and the timers due by then have run, that one invocation has happened.
C1_BurstInvokedOnceAfterWait ==
  (kind = "debounce" /\ ~leading /\ trailing /\ maxWait = Undefined
     /\ NCalls >= 1 /\ Undisturbed(LastBurstStart))
  => LET last == Calls[NCalls]
         invs == InvocationsSince(LastBurstStart)
     IN /\ \A i \in invs :
             /\ Invocations[i].args = NCalls
             /\ Invocations[i].this = last.this
             /\ Invocations[i].at = last.at + wait
        /\ Cardinality(invs) <= 1
        /\ (now >= last.at + wait /\ NoTimerDue) => Cardinality(invs) = 1

\* a burst of three calls, the last one later than the first, has been invoked
\* by the rescheduled check
C1_Witness ==
  /\ kind = "debounce" /\ ~leading /\ trailing /\ maxWait = Undefined
  /\ NCalls = 3 /\ LastBurstStart = 1 /\ Undisturbed(1)
  /\ Calls[1].at < Calls[NCalls].at
  /\ InvocationsSince(1) # {}

InitThrottle == InitWith({"throttle"}, BOOLEAN, BOOLEAN, Waits, {Undefined})
SpecThrottle == InitThrottle /\ [][Next]_vars

\* C2: throttle, any leading/trailing setting, a run without cancel() and
\* flush(): any two consecutive invocations of the underlying callable are at
\* least `wait` apart.
C2_AtMostOncePerWait ==
  (kind = "throttle" /\ lastCancel = 0 /\ lastFlush = 0)
  => \A i \in 2..Len(Invocations) :
       Invocations[i].at - Invocations[i - 1].at >= wait

\* the k-th call invoked the underlying callable itself, with its own arguments
InvokedAtCall(k) ==
  \E i \in 1..Len(Invocations) :
    /\ Invocations[i].args = k /\ Invocations[i].this = Calls[k].this
    /\ Invocations[i].op = "call" /\ Invocations[i].at = Calls[k].at

\* the k-th call opened a window: the first call ever, or a call at least
\* `wait` after the call before it, that invoked immediately
OpenedWindow(k) ==
  /\ k = 1 \/ Calls[k].at - Calls[k - 1].at >= wait
  /\ InvokedAtCall(k)

\* the calls that arrived after the k-th call and before its window closed
Suppressed(k) == {j \in (k + 1)..NCalls : Calls[j].at < Calls[k].at + wait}

SetMax(S) == CHOOSE x \in S : \A y \in S : y <= x

\* a step in which the wrapper is called / the pre-state reading of `pending`
CallStep == NCalls' = NCalls + 1
Pending == IF kind = "debounce" THEN pending(Cur) ELSE throttle_pending(Cur)

\* C3: throttle with the defaults, a run without cancel() and flush().  For a
\* call that opened a window by invoking immediately, the calls that arrive
\* before the window closes do not invoke immediately, and the last of them is
\* invoked exactly once, at (window-opening invocation + wait).
C3_TrailingAtWindowClose ==
  (kind = "throttle" /\ leading /\ trailing /\ lastCancel = 0 /\ lastFlush = 0)
  => \A k \in 1..NCalls :
       OpenedWindow(k) =>
         LET close == Calls[k].at + wait
             invs == {i \in 1..Len(Invocations) : Invocations[i].args \in Suppressed(k)}
         IN /\ \A j \in Suppressed(k) : ~InvokedAtCall(j)
            /\ \A i \in invs : /\ Invocations[i].args = SetMax(Suppressed(k))
                               /\ Invocations[i].at = close
            /\ (Suppressed(k) # {} /\ now >= close /\ NoTimerDue)
                 => Cardinality(invs) = 1

\* the parts of C3 that do not fix the time of the trailing invocation: a call
\* in a fresh window (the first call ever, or at least `wait` after the call
\* before it with no schedule outstanding) invokes immediately with its own
\* arguments, and the calls inside an opened window do not invoke immediately
C3_LeadingAndSuppression ==
  [][(kind = "throttle" /\ leading /\ trailing /\ lastCancel = 0 /\ lastFlush = 0)
       => /\ (CallStep /\ ~Pending /\ (NCalls = 0 \/ now - Calls[NCalls].at >= wait))
               => InvokedAtCall(NCalls)'
          /\ \A k \in 1..NCalls :
               OpenedWindow(k) => \A j \in Suppressed(k) : ~InvokedAtCall(j)]_vars

\* C4: throttle with trailing=true, either value of leading.  A call that no
\* cancel() follows is invoked, or a later call is: once the clock has reached
\* (last call + wait) and the timers due by then have run, some invocation
\* carries the arguments of that call or of a later one (stated for wait >= 1).
C4_NoCallLost ==
  (kind = "throttle" /\ trailing /\ wait >= 1 /\ NCalls >= 1
     /\ now >= Calls[NCalls].at + wait /\ NoTimerDue)
  => \A k \in 1..NCalls :
       lastCancel < k => InvocationsSince(k) # {}

\* C4 for leading=true alone
C4_NoCallLostLeading ==
  leading => C4_NoCallLost

InitDebounceMaxWait == InitWith({"debounce"}, BOOLEAN, {TRUE}, Waits, 0..MaxMaxWait)
SpecDebounceMaxWait == InitDebounceMaxWait /\ [][Next]_vars

\* C5: debounce with trailing=true and a maxWait (stated for maxWait >= 1).
\* While a stream of calls goes on (at least two calls, each less than `wait`
\* after the one before, the last one less than `wait` ago, no cancel or flush
\* since it began) and arguments are waiting, the time since lastInvokeTime has
\* not passed maxWait: an invocation was forced when it reached maxWait.
C5_ForcedByMaxWait ==
  (kind = "debounce" /\ trailing /\ maxWait # Undefined /\ maxWait >= 1
     /\ NCalls >= 2 /\ LastBurstStart < NCalls /\ Undisturbed(LastBurstStart)
     /\ now - Calls[NCalls].at < wait
     /\ lastArgs # Undefined)
  => now - lastInvokeTime <= maxWait

\* C6: debounce with trailing=true and a maxWait, smaller than `wait` or not
\* (stated for maxWait >= 1).  Once the clock has passed (first call of the
\* burst + maxWait), with no cancel or flush since that call, some invocation
\* with a call of the burst has happened within maxWait of that first call.
C6_MaxWaitIsCeiling ==
  (kind = "debounce" /\ trailing /\ maxWait # Undefined /\ maxWait >= 1
     /\ NCalls >= 1 /\ Undisturbed(LastBurstStart)
     /\ now > Calls[LastBurstStart].at + maxWait)
  => \E i \in InvocationsSince(LastBurstStart) :
       Invocations[i].at <= Calls[LastBurstStart].at + maxWait

InitDebounceLeading == InitWith({"debounce"}, {TRUE}, {FALSE}, Waits, MaxWaits)
SpecDebounceLeading == InitDebounceLeading /\ [][Next]_vars

\* the step is a call that starts a burst / a later call of a burst (less than
\* `wait` after the call before it, no cancel() in between)
BurstFirstCall == CallStep /\ (NCalls = 0 \/ now - Calls[NCalls].at >= wait)
BurstLaterCall ==
  CallStep /\ NCalls >= 1 /\ now - Calls[NCalls].at < wait /\ lastCancel < NCalls

\* the step invoked nothing / a call step invoked nothing but its own arguments
NoInvocation == Invocations' = Invocations
OnlyOwnInvocation ==
  NoInvocation \/ (Len(Invocations') = Len(Invocations) + 1 /\ InvokedAtCall(NCalls)')

\* C7 as claimed: debounce with leading=true, trailing=false.  The first call
\* of every burst invokes synchronously with its own arguments; a later call of
\* the burst causes no invocation, and neither does a timer or flush().
C7_LeadingOnly ==
  [][(kind = "debounce" /\ leading /\ ~trailing)
       => /\ BurstFirstCall => InvokedAtCall(NCalls)'
          /\ BurstLaterCall => NoInvocation
          /\ CallStep => OnlyOwnInvocation
          /\ ~CallStep => NoInvocation]_vars

\* C7 as amended: debounce with leading=true, trailing=false and no maxWait.
\* The first call of a burst that arrives while no schedule is outstanding
\* invokes synchronously with its own arguments; a later call of the burst
\* causes no invocation, and neither does a timer or flush().
C7_LeadingOnlyNoMaxWait ==
  [][(kind = "debounce" /\ leading /\ ~trailing /\ maxWait = Undefined)
       => /\ (BurstFirstCall /\ ~Pending) => InvokedAtCall(NCalls)'
          /\ BurstLaterCall => NoInvocation
          /\ CallStep => OnlyOwnInvocation
          /\ ~CallStep => NoInvocation]_vars

\* two bursts: the first call of each was invoked, the later call of the first
\* burst was not, although flush() ran after it
C7_Witness ==
  /\ kind = "debounce" /\ leading /\ ~trailing /\ maxWait = Undefined
  /\ NCalls = 3 /\ Calls[1].at < Calls[2].at /\ Calls[2].at - Calls[1].at < wait
  /\ Calls[3].at - Calls[2].at >= wait
  /\ lastFlush = 2 /\ lastCancel = 0
  /\ InvokedArgs = {1, 3}

\* debounce and throttle under every combination of leading and trailing, with
\* a wait shorter than the horizon, debounce without maxWait and with a maxWait
\* below the wait
ControlWaits == {2}
ControlMaxWaits == {Undefined, 1}
InitControl == InitWith(Kinds, BOOLEAN, BOOLEAN, ControlWaits, ControlMaxWaits)
SpecControl == InitControl /\ [][Next]_vars

\* the invocations made by the step
NewInvocations == {Invocations'[i] : i \in (Len(Invocations) + 1)..Len(Invocations')}

\* C8: debounce and throttle.  Once cancel() has run, no step (a timer, a later
\* call, flush()) invokes the callable with the arguments of a call made before
\* that cancel(), and `pending` reads false right after cancel() returns.
C8_CancelDropsCall ==
  [][/\ \A inv \in NewInvocations : inv.args > lastCancel
     /\ op' = "cancel" => (~Pending' /\ NoInvocation)]_vars

\* cancel() ran while the call before it was not invoked; its timer's time has
\* passed, flush() ran, and a later call was invoked
C8_Witness ==
  /\ lastCancel >= 1 /\ lastCancel \notin InvokedArgs
  /\ NCalls > lastCancel /\ NCalls \in InvokedArgs
  /\ lastFlush > lastCancel
  /\ now >= Calls[lastCancel].at + wait /\ NoTimerDue

\* a step in which flush() ran / the invocations the step made are exactly one,
\* made now with the arguments and receiver of the most recent call, and the
\* step returned its result
FlushStep == op' = "flush"
InvokedMostRecent ==
  /\ NCalls >= 1
  /\ Len(Invocations') = Len(Invocations) + 1
  /\ LET inv == Invocations'[Len(Invocations')]
     IN /\ inv.args = NCalls /\ inv.this = Calls[NCalls].this /\ inv.at = now
        /\ ret' = func(inv.this, inv.args)
ReturnedCached == NoInvocation /\ ret' = result /\ result' = result

\* C9 as claimed: debounce and throttle, every option combination.  flush()
\* while `pending` is true invokes synchronously with the arguments of the most
\* recent call and returns that result; flush() while `pending` is false
\* invokes nothing and returns the cached result.
C9_FlushInvokesPending ==
  [][FlushStep => IF Pending THEN InvokedMostRecent ELSE ReturnedCached]_vars

\* the most recent call has been neither invoked nor cancelled
MostRecentOutstanding ==
  NCalls >= 1 /\ NCalls \notin InvokedArgs /\ lastCancel < NCalls

\* C9 as amended: flush() while `pending` is true, with trailing enabled and
\* the most recent call neither invoked nor cancelled, invokes synchronously
\* with that call's arguments and returns that result, and `pending` is false
\* afterwards; in every other case flush() invokes nothing and returns the
\* cached result.
C9_FlushInvokesStored ==
  [][FlushStep => IF Pending /\ trailing /\ MostRecentOutstanding
                    THEN InvokedMostRecent /\ ~Pending'
                    ELSE ReturnedCached]_vars

\* with trailing enabled and a schedule outstanding, arguments are stored
\* exactly when the most recent call has been neither invoked nor cancelled
C9_StoredIsOutstanding ==
  (Pending /\ trailing) => (lastArgs # Undefined <=> MostRecentOutstanding)

\* flush() has just invoked the second or a later call, which was waiting
\* behind a leading invocation, and returned its result
C9_Witness ==
  /\ op = "flush" /\ leading /\ trailing /\ NCalls >= 2
  /\ Len(Invocations) >= 2
  /\ LET inv == Invocations[Len(Invocations)]
     IN inv.op = "flush" /\ inv.args = NCalls /\ inv.at = now /\ ret = inv.args
  /\ ~Pending

\* C10: debounce and throttle.  After flush() returns, no timer of the wrapper
\* remains outstanding in the host's timer table.
C10_FlushLeavesNoTimer ==
  op = "flush" => timers = EmptyBag

\* C11: debounce and throttle.  `pending` reads true exactly when a timer of
\* the wrapper is outstanding in the host's timer table.
C11_PendingIffTimerOutstanding ==
  Pending <=> timers # EmptyBag

\* the half of C11 that the code keeps: while `pending` reads true a timer of
\* the wrapper is outstanding
C11_PendingHasTimer ==
  Pending => timers # EmptyBag

\* debounce (every wait, with and without maxWait) and throttle (every wait)
\* with leading=false and trailing=false
InitBothOff == InitWith(Kinds, {FALSE}, {FALSE}, Waits, MaxWaits)
SpecBothOff == InitBothOff /\ [][Next]_vars

\* C12 as claimed: debounce (with or without maxWait) and throttle with
\* leading=false and trailing=false.  The callable is never invoked, the
\* cached result stays undefined, and calls and flush() return undefined.
C12_NeverInvoked ==
  (~leading /\ ~trailing)
  => /\ Invocations = <<>>
     /\ result = Undefined
     /\ op \in {"call", "flush"} => ret = Undefined

\* C12 as amended: debounce without maxWait and throttle, with leading=false
\* and trailing=false.  The callable is never invoked, the cached result stays
\* undefined, and calls and flush() return undefined.
C12_NeverInvokedNoMaxWait ==
  (~leading /\ ~trailing /\ maxWait = Undefined)
  => /\ Invocations = <<>>
     /\ result = Undefined
     /\ op \in {"call", "flush"} => ret = Undefined

\* every call was made, cancel() ran between them, the last timer's time has
\* passed, and flush() has just returned undefined
C12_Witness ==
  /\ ~leading /\ ~trailing /\ maxWait = Undefined
  /\ NCalls = MaxCalls /\ lastCancel \in 1..(NCalls - 1)
  /\ now >= Calls[NCalls].at + wait /\ NoTimerDue
  /\ op = "flush" /\ ret = Undefined /\ Invocations = <<>>

\* debounce and throttle under every combination of leading and trailing, with
\* a wait of one millisecond, debounce without maxWait and with a maxWait of
\* the length of the wait
InitHistory == InitWith(Kinds, BOOLEAN, BOOLEAN, {1}, {Undefined, 1})
SpecHistory == InitHistory /\ [][Next]_vars

\* the position in the history of the most recent call before position i (0: none)
CallBefore(i) ==
  LET js == {j \in 1..(i - 1) : log[j].type = "call"}
  IN IF js = {} THEN 0 ELSE SetMax(js)

\* C13: debounce and throttle.  Every invocation (leading, trailing, forced by
\* maxWait, by flush()) uses the arguments and the receiver of the most recent
\* call made before it.
C13_InvokesMostRecentCall ==
  \A i \in 1..Len(log) :
    log[i].type = "invoke"
    => /\ CallBefore(i) # 0
       /\ log[i].args = log[CallBefore(i)].args
       /\ log[i].this = log[CallBefore(i)].this

\* a timer invoked the third call of a burst whose second call was passed over
C13_Witness ==
  /\ NCalls = 3 /\ 2 \notin InvokedArgs /\ Len(Invocations) >= 1
  /\ LET inv == Invocations[Len(Invocations)]
     IN inv.op = "timer" /\ inv.args = 3 /\ inv.this = ThisOf(3)
  /\ Calls[3].at < Calls[2].at + wait

\* the return value of the most recent invocation (undefined if there was none)
CachedResult ==
  IF Invocations = <<>> THEN Undefined
  ELSE LET inv == Invocations[Len(Invocations)] IN func(inv.this, inv.args)

C14_ResultIsLastInvocation ==
  result = CachedResult

DoFlush(s) == IF kind = "debounce" THEN flush(s) ELSE throttle_flush(s)

\* the invocations flush() made since the most recent call
FlushInvocationsSinceCall ==
  {i \in 1..Len(log) : /\ log[i].type = "invoke" /\ log[i].op = "flush"
                       /\ \A j \in i..Len(log) : log[j].type # "call"}

\* C15: debounce and throttle.  Right after flush() returned, `pending` is
\* false and a second flush() invokes nothing, changes nothing and returns
\* the cached result, the value the first one returned; the flushes since the
\* most recent call invoked at most once in total.
C15_FlushTwice ==
  op = "flush"
  => LET second == DoFlush(Cur)
     IN /\ ~Pending
        /\ second.log = log
        /\ second.ret = ret /\ second.ret = result
        /\ second.result = result /\ second.timeoutId = Undefined
        /\ Cardinality(FlushInvocationsSinceCall) <= 1

\* flush() has just invoked the only call of a trailing-only wrapper; the
\* call's timer is still in the table
C15_Witness ==
  /\ op = "flush" /\ ~leading /\ trailing /\ NCalls = 1
  /\ Len(Invocations) = 1 /\ Invocations[1].op = "flush" /\ ret = 1
  /\ timers # EmptyBag

\* C16: debounce and throttle.  After cancel() the wrapper is in the state of
\* a newly created wrapper: the closure's variables, the cached result
\* included, have their initial values and no timer is outstanding.
C16_CancelIsFresh ==
  op = "cancel"
  => /\ lastCallTime = 0 /\ lastInvokeTime = 0
     /\ lastArgs = Undefined /\ lastThis = Undefined
     /\ timeoutId = Undefined /\ maxTimeoutId = Undefined
     /\ result = Undefined
     /\ timers = EmptyBag

\* the part of C16 that the code keeps: cancel() resets the call and invoke
\* times, the stored arguments and receiver and the handle
C16_CancelResetsFields ==
  op = "cancel"
  => /\ lastCallTime = 0 /\ lastInvokeTime = 0
     /\ lastArgs = Undefined /\ lastThis = Undefined
     /\ timeoutId = Undefined /\ maxTimeoutId = Undefined

\* debounce and throttle over a callable that throws on the arguments of the
\* first or of the second call
ThrowSets == {{1}, {2}}
InitThrows == InitThrowing(Kinds, BOOLEAN, BOOLEAN, ControlWaits, {Undefined}, ThrowSets)
SpecThrows == InitThrows /\ [][Next]_vars

\* C17: debounce and throttle.  An invocation in which the callable throws
\* ends the operation that made it (call, flush(), timer callback) with that
\* exception and leaves the cached result as it was; its arguments are
\* consumed, and no later step invokes the callable with them again.  No
\* operation ends with an exception otherwise.
C17_ThrowSurfacesOnce ==
  [][/\ \A inv \in NewInvocations :
          /\ inv.threw => (ret' = Threw /\ result' = result /\ lastArgs' = Undefined)
          /\ \A i \in 1..Len(Invocations) :
               Invocations[i].threw => Invocations[i].args # inv.args
     /\ (op' # "tick" /\ ret' = Threw) => \E inv \in NewInvocations : inv.threw]_vars

\* the first call threw in its leading invocation; since then the wait has
\* passed, every due timer has fired, flush() ran, and the second call was
\* invoked
C17_Witness ==
  /\ throwing = {1} /\ NCalls >= 2 /\ Len(Invocations) >= 2
  /\ Invocations[1].threw /\ Invocations[1].op = "call" /\ Invocations[1].args = 1
  /\ 2 \in InvokedArgs /\ result = 2
  /\ lastFlush >= 1 /\ now >= Calls[1].at + wait /\ NoTimerDue

\* the factories take `wait` as it is given: debounce and throttle with a
\* negative and with a positive wait
AnyWaits == {-1, 1}
InitAnyWait == InitWith(Kinds, BOOLEAN, BOOLEAN, AnyWaits, {Undefined})
SpecAnyWait == InitAnyWait /\ [][Next]_vars

\* C18: debounce and throttle.  A wrapper with a negative wait does not come
\* into use: it takes no call and schedules no timer.
C18_NegativeWaitRejected ==
  wait < 0 => (log = <<>> /\ timers = EmptyBag)

\* C19: debounce and throttle.  At most one timer of the wrapper is
\* outstanding in the host's timer table.
C19_AtMostOneTimer ==
  BagCardinality(timers) <= 1

\* C20 as claimed: debounce and throttle.  A step that does not invoke the
\* callable leaves lastInvokeTime unchanged.
C20_InvokeTimeOnlyByInvoking ==
  [][NoInvocation => lastInvokeTime' = lastInvokeTime]_vars

\* C20 as amended: debounce and throttle.  lastInvokeTime changes only when
\* the callable is invoked (to the current time), when a call arrives while no
\* schedule is outstanding and starts a burst or window (to the time of the
\* call, whether or not it invokes), and on cancel() (to 0); a timer callback,
\* flush() and a call that arrives during a schedule leave it unchanged unless
\* they invoke.
C20_InvokeTimeChanges ==
  [][lastInvokeTime' # lastInvokeTime
       => \/ ~NoInvocation /\ lastInvokeTime' = now
          \/ CallStep /\ ~Pending /\ lastInvokeTime' = now
          \/ op' = "cancel" /\ lastInvokeTime' = 0]_vars

\* a timer callback and flush() have run without invoking since the only call
\* started a burst, which set lastInvokeTime without invoking
C20_Witness ==
  /\ ~leading /\ ~trailing /\ NCalls = 1 /\ Invocations = <<>>
  /\ lastCancel = 0 /\ lastFlush = 1 /\ op = "timer"
  /\ lastInvokeTime = Calls[1].at /\ now > Calls[1].at

\* the step took the stored arguments away / invoked the callable with the
\* arguments stored when it ran (a call stores its own before it invokes)
ArgsCleared == lastArgs # Undefined /\ lastArgs' = Undefined
InvokedStored ==
  \E inv \in NewInvocations :
    IF CallStep THEN inv.args = NCalls' /\ inv.this = ThisOf(NCalls')
                ELSE inv.args = lastArgs /\ inv.this = lastThis

\* C21 as claimed: debounce and throttle.  The stored arguments go from
\* present to absent only in a step that invokes the callable with them or in
\* cancel(); every invocation and every cancel() leaves none stored.
C21_ArgsClearedByInvokeOrCancel ==
  [][/\ ArgsCleared => (InvokedStored \/ op' = "cancel")
     /\ (~NoInvocation \/ op' = "cancel") => lastArgs' = Undefined]_vars

\* C21 as amended: debounce and throttle.  The stored arguments go from
\* present to absent only in a step that invokes the callable with them, in
\* cancel(), or, with trailing disabled, in a trailing-edge completion (a
\* timer callback that finds the wait over, or flush() while `pending`), which
\* discards them; every invocation and every cancel() leaves none stored.
C21_ArgsClearedOrDiscarded ==
  [][/\ ArgsCleared => \/ InvokedStored
                       \/ op' = "cancel"
                       \/ ~trailing /\ op' \in {"timer", "flush"} /\ NoInvocation /\ ~Pending'
     /\ (~NoInvocation \/ op' = "cancel") => lastArgs' = Undefined]_vars

\* with trailing disabled, a timer callback has just discarded the arguments
\* of the second call, which was never invoked
C21_Witness ==
  /\ ~trailing /\ op = "timer" /\ lastArgs = Undefined /\ ~Pending
  /\ NCalls = 2 /\ 2 \notin InvokedArgs /\ lastCancel = 0 /\ lastFlush = 0

\* the step is a call that arrives at a debounce wrapper with a maxWait while
\* a schedule is outstanding and at least maxWait after lastInvokeTime
MaxWaitExceededCall ==
  /\ kind = "debounce" /\ maxWait # Undefined
  /\ CallStep /\ Pending /\ now - lastInvokeTime >= maxWait

\* C22: debounce with a maxWait of any value.  A call that arrives while a
\* schedule is outstanding and at least maxWait after lastInvokeTime invokes
\* synchronously with its own arguments, and afterwards exactly one timer is
\* outstanding, due `wait` after the call.
C22_ForcedPath ==
  [][MaxWaitExceededCall
       => /\ InvokedAtCall(NCalls)' /\ Len(Invocations') = Len(Invocations) + 1
          /\ timers' = SetToBag({now + wait})
          /\ timeoutId' = now + wait]_vars

\* the part of C22 that the code keeps: with a maxWait other than 0 such a
\* call invokes synchronously with its own arguments and the handle names a
\* new timer due `wait` after the call
C22_ForcedInvokes ==
  [][(MaxWaitExceededCall /\ maxWait # 0)
       => /\ InvokedAtCall(NCalls)' /\ Len(Invocations') = Len(Invocations) + 1
          /\ timeoutId' = now + wait /\ BagIn(now + wait, timers')]_vars

\* C23: debounce and throttle.  No call's arguments are invoked twice, the
\* invocations never outnumber the calls, every invocation has a call before
\* it, and between two consecutive invocations there is a call.
C23_OneInvocationPerCall ==
  /\ Len(Invocations) <= NCalls
  /\ \A i, j \in 1..Len(Invocations) :
       i # j => Invocations[i].args # Invocations[j].args
  /\ \A i \in 1..Len(log) :
       log[i].type = "invoke" => (i > 1 /\ log[i - 1].type = "call")

\* every call was invoked, the last one by flush(); the timer of that call
\* fired afterwards and invoked nothing, and so did a second flush()
C23_Witness ==
  /\ NCalls >= 2 /\ Len(Invocations) = NCalls
  /\ log[Len(log)].type = "invoke" /\ log[Len(log)].op = "flush"
  /\ lastFlush = NCalls /\ op = "flush"
  /\ timers = EmptyBag /\ now >= Calls[NCalls].at + wait /\ wait >= 1

\* The clock keeps running while a timer is outstanding: one millisecond
\* passes, within the horizon or, beyond it, towards the next timer.
TickLive ==
  /\ NCalls >= 1
  /\ now < StartTime + MaxTime \/ timers # EmptyBag
  /\ NoTimerDue
  /\ now' = now + 1
  /\ op' = "tick"
  /\ UNCHANGED <<config, timeoutId, maxTimeoutId, lastCallTime, lastInvokeTime,
                 lastArgs, lastThis, result, timers, log, ret, lastCancel, lastFlush>>

\* debounce and throttle with every non-negative wait, debounce with and
\* without maxWait; the caller only calls and then stops, the clock is
\* monotonic and runs on, and a due timer eventually fires
InitLive == InitWith(Kinds, BOOLEAN, BOOLEAN, Waits, MaxWaits)
NextLive == Call \/ TimerFire \/ TickLive
SpecLive == InitLive /\ [][NextLive]_vars /\ WF_vars(TimerFire) /\ WF_vars(TickLive)

\* the step is a timer callback that rescheduled instead of completing
Rescheduled == op' = "timer" /\ Pending'

\* C24: debounce and throttle with a non-negative wait.  A timer callback that
\* reschedules sets the new timer a strictly positive time, at most `wait`,
\* ahead; and once the calls have stopped the wrapper reaches, for good, a
\* state in which `pending` is false and no timer is outstanding.
C24_CheckChainTerminates ==
  /\ [][Rescheduled => (timeoutId' - now \in 1..wait)]_vars
  /\ <>[](~Pending /\ timers = EmptyBag)

\* a timer callback has just rescheduled, after the last call, for a later time
C24_Witness ==
  /\ op = "timer" /\ Pending /\ NCalls = MaxCalls
  /\ timeoutId > now /\ lastArgs # Undefined

\* with cancel() and flush() as well: every outstanding timer is due at most
\* `wait` after the most recent call, and cancel() and flush() set no timer,
\* so no timer is left once the clock is `wait` past the last call
C24_TimersWithinWait ==
  /\ NCalls = 0 => timers = EmptyBag
  /\ NCalls >= 1 => \A due \in BagToSet(timers) : due <= Calls[NCalls].at + wait
  /\ (NCalls >= 1 /\ now > Calls[NCalls].at + wait) => (timers = EmptyBag /\ ~Pending)

====
